---- MODULE Spec2Model ----
(***************************************************************************)
(* Model of NDJSON_DataParsing.py: the staged pipeline                     *)
(*   run guard -> location lookup -> practitioner extraction with batch    *)
(*   spill -> encounter aggregation -> batch merge into the final table.   *)
(*                                                                         *)
(* Python values are modelled as follows.  A str is the sequence of its    *)
(* characters (each a one-character string), so that strip, lower,         *)
(* startswith, split and the parsers are computed and not assumed.  None   *)
(* is the one-element sequence None below, which no str equals.  A dict    *)
(* whose iteration order matters (practitioner_data) is the sequence of    *)
(* its values in insertion order; the other dicts are functions.           *)
(***************************************************************************)
EXTENDS Integers, Sequences, FiniteSets, TLC

None == <<"None">>

\* Python truthiness of an optional str: `not x`
Falsy(x) == x = None \/ x = <<>>

\* ------------------------------------------------------------------ strings
UpperChars == <<"A","B","C","D","E","F","G","H","I","J","K","L","M",
                "N","O","P","Q","R","S","T","U","V","W","X","Y","Z">>
LowerChars == <<"a","b","c","d","e","f","g","h","i","j","k","l","m",
                "n","o","p","q","r","s","t","u","v","w","x","y","z">>
DigitChars == <<"0","1","2","3","4","5","6","7","8","9">>

LowerChar(c) ==
    IF \E i \in 1..26 : UpperChars[i] = c
    THEN LowerChars[CHOOSE i \in 1..26 : UpperChars[i] = c]
    ELSE c

\* str.lower()
Lower(s) == [i \in 1..Len(s) |-> LowerChar(s[i])]

RECURSIVE LStrip(_)
LStrip(s) == IF s # <<>> /\ Head(s) = " " THEN LStrip(Tail(s)) ELSE s

RECURSIVE RStrip(_)
RStrip(s) == IF s # <<>> /\ s[Len(s)] = " " THEN RStrip(SubSeq(s, 1, Len(s) - 1)) ELSE s

\* str.strip()
Strip(s) == RStrip(LStrip(s))

\* str.startswith(p)
StartsWith(s, p) == Len(s) >= Len(p) /\ SubSeq(s, 1, Len(p)) = p

\* sep.join(parts), parts a sequence of str
RECURSIVE Join(_, _)
Join(parts, sep) ==
    IF parts = <<>> THEN <<>>
    ELSE IF Len(parts) = 1 THEN parts[1]
    ELSE parts[1] \o sep \o Join(Tail(parts), sep)

\* filter(None, parts)
RECURSIVE FilterTruthy(_)
FilterTruthy(parts) ==
    IF parts = <<>> THEN <<>>
    ELSE IF Falsy(Head(parts)) THEN FilterTruthy(Tail(parts))
    ELSE <<Head(parts)>> \o FilterTruthy(Tail(parts))

\* s.split(c): the segments of s between occurrences of the character c
RECURSIVE Split(_, _)
Split(s, c) ==
    IF \A i \in 1..Len(s) : s[i] # c THEN <<s>>
    ELSE LET k == CHOOSE i \in 1..Len(s) : s[i] = c /\ \A j \in 1..(i - 1) : s[j] # c
         IN  <<SubSeq(s, 1, k - 1)>> \o Split(SubSeq(s, k + 1, Len(s)), c)

IsDigit(c) == \E i \in 1..10 : DigitChars[i] = c
DigitVal(c) == (CHOOSE i \in 1..10 : DigitChars[i] = c) - 1
IsDigits(s) == s # <<>> /\ \A i \in 1..Len(s) : IsDigit(s[i])

RECURSIVE ParseInt(_)
ParseInt(s) == IF s = <<>> THEN 0 ELSE 10 * ParseInt(SubSeq(s, 1, Len(s) - 1)) + DigitVal(s[Len(s)])

RECURSIVE FormatInt(_)
FormatInt(n) == IF n < 10 THEN <<DigitChars[n + 1]>> ELSE FormatInt(n \div 10) \o <<DigitChars[(n % 10) + 1]>>

\* ------------------------------------------------------------ location keys
LocationNs == <<"l","o","c","a","t","i","o","n","/">>

normalize_location_key(ref) ==
    IF Falsy(ref) THEN None
    ELSE LET r == Lower(Strip(ref))
         IN  IF StartsWith(r, LocationNs) THEN r ELSE LocationNs \o r

\* the formatted address of lines 54-60 (and 108-114)
FormatAddress(a) ==
    Strip(Join(FilterTruthy(<<Join(a.line, <<" ">>), a.city, a.state, a.postalCode, a.country>>),
               <<",", " ">>))

\* line 63
FormatLocation(name, address) ==
    IF ~Falsy(name) THEN name \o <<" ", "(">> \o address \o <<")">> ELSE address

\* location_lookup[loc_key] = full
DictPut(d, k, v) == [x \in (DOMAIN d) \cup {k} |-> IF x = k THEN v ELSE d[x]]

\* location_lookup.get(loc)
DictGet(d, k) == IF k \in DOMAIN d THEN d[k] ELSE None

EmptyDict == [x \in {} |-> None]

\* lines 50-64: one location record folded into location_lookup
LocationStep(lookup, rec) ==
    DictPut(lookup, normalize_location_key(rec.id), FormatLocation(rec.name, FormatAddress(rec.address)))

\* ------------------------------------------------------------- timestamps
\* dateutil.parser.parse on the date forms the model feeds it: Y-M-D with
\* numeric fields (1 <= M <= 12, 1 <= D <= 31); anything else raises
\* ParserError.  The value orders as datetime does.
DtOk(s) ==
    LET p == Split(s, "-")
    IN  /\ Len(p) = 3
        /\ \A i \in 1..3 : IsDigits(p[i])
        /\ ParseInt(p[2]) \in 1..12
        /\ ParseInt(p[3]) \in 1..31

dt_parse(s) == LET p == Split(s, "-") IN (ParseInt(p[1]) * 100 + ParseInt(p[2])) * 100 + ParseInt(p[3])

\* may raise: either operand of the comparison fails to parse (lines 192, 199)
CompareRaises(a, b) == ~DtOk(a) \/ ~DtOk(b)

\* mutant of Earlier: an equal timestamp replaces the stored one
EarlierOrEqual(a, b) == dt_parse(a) <= dt_parse(b)

\* line 192: dt_parse(start) < dt_parse(first[0])
Earlier(a, b) == dt_parse(a) < dt_parse(b)

\* mutant of Later: the comparison of line 192 copied to line 199
LaterCopiedFromEarlier(a, b) == dt_parse(a) < dt_parse(b)

\* line 199: dt_parse(end) > dt_parse(last[0])
Later(a, b) == dt_parse(a) > dt_parse(b)

\* ------------------------------------------------- encounter aggregation
PractitionerNs == <<"P","r","a","c","t","i","t","i","o","n","e","r","/">>

\* lines 177-181: the provider id of a participant, <<>> when it is skipped
ParticipantId(actor_ref) ==
    IF StartsWith(actor_ref, PractitionerNs)
    THEN LET p == Split(actor_ref, "/") IN p[Len(p)]
    ELSE <<>>

\* lines 169-174: the normalized first non-empty location reference
FirstLocRef(rec) ==
    LET refs == FilterTruthy(rec.location)
    IN  IF refs # <<>> THEN normalize_location_key(refs[1]) ELSE None

\* lines 185-188: the state of a provider seen for the first time
InitialActivity(start, end, loc_ref) ==
    [first |-> IF ~Falsy(start) THEN <<start, loc_ref>> ELSE None,
     last  |-> IF ~Falsy(end) THEN <<end, loc_ref>> ELSE None]

\* lines 191-195: a slot is None or the tuple <<timestamp, loc_ref>>
UpdateFirst(cur, start, loc_ref) ==
    IF ~Falsy(start) /\ cur # None
    THEN IF CompareRaises(start, cur[1]) THEN [val |-> cur, error |-> "ParserError"]
         ELSE IF Earlier(start, cur[1]) THEN [val |-> <<start, loc_ref>>, error |-> "none"]
         ELSE [val |-> cur, error |-> "none"]
    ELSE IF ~Falsy(start) THEN [val |-> <<start, loc_ref>>, error |-> "none"]
    ELSE [val |-> cur, error |-> "none"]

\* lines 198-202
UpdateLast(cur, end, loc_ref) ==
    IF ~Falsy(end) /\ cur # None
    THEN IF CompareRaises(end, cur[1]) THEN [val |-> cur, error |-> "ParserError"]
         ELSE IF Later(end, cur[1]) THEN [val |-> <<end, loc_ref>>, error |-> "none"]
         ELSE [val |-> cur, error |-> "none"]
    ELSE IF ~Falsy(end) THEN [val |-> <<end, loc_ref>>, error |-> "none"]
    ELSE [val |-> cur, error |-> "none"]

\* lines 184-202 for one participant with a non-empty provider id; an
\* exception leaves the assignments made before it in place
ParticipantStep(am, pid, start, end, loc_ref) ==
    IF pid \notin DOMAIN am
    THEN [map |-> DictPut(am, pid, InitialActivity(start, end, loc_ref)), error |-> "none"]
    ELSE LET f == UpdateFirst(am[pid].first, start, loc_ref)
         IN  IF f.error # "none" THEN [map |-> am, error |-> f.error]
             ELSE LET l == UpdateLast(am[pid].last, end, loc_ref)
                  IN  [map |-> DictPut(am, pid, [first |-> f.val, last |-> l.val]),
                       error |-> l.error]

\* lines 176-202: the participant loop
RECURSIVE ParticipantsLoop(_, _, _, _, _)
ParticipantsLoop(am, parts, start, end, loc_ref) ==
    IF parts = <<>> THEN [map |-> am, error |-> "none"]
    ELSE LET pid == ParticipantId(Head(parts))
         IN  IF Falsy(pid) THEN ParticipantsLoop(am, Tail(parts), start, end, loc_ref)
             ELSE LET r == ParticipantStep(am, pid, start, end, loc_ref)
                  IN  IF r.error # "none" THEN r
                      ELSE ParticipantsLoop(r.map, Tail(parts), start, end, loc_ref)

\* lines 161-202: one encounter record
EncounterStep(am, rec) ==
    IF Falsy(rec.start) /\ Falsy(rec.end) THEN [map |-> am, error |-> "none"]
    ELSE ParticipantsLoop(am, rec.participant, rec.start, rec.end, FirstLocRef(rec))

\* -------------------------------------------------- practitioner batches
\* lines 87-135: the flat row of a record; src, the position of the record
\* in the stream, stands for the fields taken from it (npi, name, phone,
\* email, address, organization)
ExtractRow(rec, idx) == [provider_id |-> rec.id, src |-> idx]

\* line 119: practitioner_data[pid] = row (a dict keeps the position of a
\* key that is overwritten)
BufferPut(buf, row) ==
    IF \E i \in 1..Len(buf) : buf[i].provider_id = row.provider_id
    THEN [i \in 1..Len(buf) |-> IF buf[i].provider_id = row.provider_id THEN row ELSE buf[i]]
    ELSE Append(buf, row)

\* line 138
ThresholdReached(buf, size) == Len(buf) >= size

\* lines 67-71: the batch file numbered batch_num holds the rows of the buffer
write_batch(files, batch, batch_num) == DictPut(files, batch_num, batch)

\* mutant of GuardFires: the guard is gone
GuardNeverFires(existing) == FALSE

\* line 20
GuardFires(existing) == existing # {}

\* sorted(...glob(...)): the zero-padded names sort as their numbers do
RECURSIVE SortedSeq(_)
SortedSeq(S) ==
    IF S = {} THEN <<>>
    ELSE LET m == CHOOSE x \in S : \A y \in S : x <= y
         IN  <<m>> \o SortedSeq(S \ {m})

\* ------------------------------------------------------------------ merge
\* pd.read_csv, line 212: a provider_id column in which every cell is a
\* digit string is inferred as int64 (the cell "01" becomes 1); otherwise
\* the column stays str
read_csv(rows) ==
    LET numeric == \A i \in 1..Len(rows) : IsDigits(rows[i].provider_id)
    IN  [dtype |-> IF numeric THEN "int64" ELSE "object",
         rows  |-> [i \in 1..Len(rows) |->
                      [provider_id |-> IF numeric THEN ParseInt(rows[i].provider_id)
                                       ELSE rows[i].provider_id,
                       src |-> rows[i].src]]]

\* activity_map.get(pid, {}).get(slot, (None, None)), lines 216-228; an
\* int64 provider id equals no key of activity_map
SlotGet(am, dtype, pid, slot) ==
    IF dtype = "object" /\ pid \in DOMAIN am THEN am[pid][slot] ELSE <<None, None>>

\* subscripting a slot that is None raises TypeError (lines 216, 225)
EnrichRaises(am, df) ==
    \E i \in 1..Len(df.rows) :
        \/ SlotGet(am, df.dtype, df.rows[i].provider_id, "first") = None
        \/ SlotGet(am, df.dtype, df.rows[i].provider_id, "last") = None

\* lines 215-232 for one row
EnrichRow(am, lookup, dtype, r) ==
    LET f == SlotGet(am, dtype, r.provider_id, "first")
        l == SlotGet(am, dtype, r.provider_id, "last")
    IN  [provider_id |-> r.provider_id, src |-> r.src,
         first_activity_date |-> f[1], first_activity_location |-> f[2],
         first_activity_address |-> DictGet(lookup, f[2]),
         last_activity_date |-> l[1], last_activity_location |-> l[2],
         last_activity_address |-> DictGet(lookup, l[2])]

\* line 235, keep="first" by default: row i stays when no earlier row has its id
KeepRow(rows, i) == \A j \in 1..(i - 1) : rows[j].provider_id # rows[i].provider_id

RECURSIVE DropFrom(_, _)
DropFrom(rows, i) ==
    IF i > Len(rows) THEN <<>>
    ELSE (IF KeepRow(rows, i) THEN <<rows[i]>> ELSE <<>>) \o DropFrom(rows, i + 1)

drop_duplicates(rows) == DropFrom(rows, 1)

\* to_csv writes None as the empty field and an int64 in decimal
CsvText(v) == IF v = None THEN <<>> ELSE v

CsvLine(dtype, r) ==
    [kind |-> "row",
     provider_id |-> IF dtype = "int64" THEN FormatInt(r.provider_id) ELSE r.provider_id,
     src |-> r.src,
     first_activity_date |-> CsvText(r.first_activity_date),
     first_activity_location |-> CsvText(r.first_activity_location),
     first_activity_address |-> CsvText(r.first_activity_address),
     last_activity_date |-> CsvText(r.last_activity_date),
     last_activity_location |-> CsvText(r.last_activity_location),
     last_activity_address |-> CsvText(r.last_activity_address)]

HeaderLine == [kind |-> "header"]

\* mutant of HeaderFlag: every append writes the header
HeaderAlways(exists) == TRUE

\* line 238
HeaderFlag(exists) == ~exists

\* lines 212-239 for a batch whose enrichment does not raise
MergedLines(am, lookup, file, header) ==
    LET df   == read_csv(file)
        rows == drop_duplicates([i \in 1..Len(df.rows) |-> EnrichRow(am, lookup, df.dtype, df.rows[i])])
    IN  (IF header THEN <<HeaderLine>> ELSE <<>>) \o [i \in 1..Len(rows) |-> CsvLine(df.dtype, rows[i])]

\* ------------------------------------------------------------------ state
VARIABLES
    pc,                 \* the stage the script is in
    error,              \* the exception that ended the run, "none" otherwise
    location_files,     \* the records of the Location stream, in file order
    practitioner_files, \* the records of the Practitioner stream
    encounter_files,    \* the records of the Encounter stream
    loc_i, prov_i, enc_i, \* records of each stream consumed so far
    existing_batches,   \* line 19
    location_lookup,    \* line 39
    practitioner_data,  \* line 74
    batch_count,        \* line 76
    batches,            \* BATCH_OUTPUT_DIR: batch number -> rows of the file
    activity_map,       \* line 150
    final_exists,       \* FINAL_OUTPUT.exists()
    final_lines,        \* the lines of FINAL_OUTPUT
    batch_files,        \* line 209
    merge_i,            \* batches merged so far
    header_log          \* the header argument of each to_csv append, line 239

vars == <<pc, error, location_files, practitioner_files, encounter_files,
          loc_i, prov_i, enc_i, existing_batches, location_lookup,
          practitioner_data, batch_count, batches, activity_map,
          final_exists, final_lines, batch_files, merge_i, header_log>>

inputs == <<location_files, practitioner_files, encounter_files>>

\* ----------------------------------------------------------------- bounds
BATCH_SIZE == 2
MaxProv == 4
MaxLoc == 2
MaxEnc == 2

SeqsUpTo(S, n) == UNION {[1..k -> S] : k \in 0..n}

\* ----------------------------------------------------------------- inputs
EmptyAddr == [line |-> <<>>, city |-> None, state |-> None, postalCode |-> None, country |-> None]
FullAddr  == [line |-> << <<"1">>, <<"M">> >>, city |-> <<"X">>, state |-> <<>>,
              postalCode |-> None, country |-> <<"U">>]

LocNoId   == [id |-> None, name |-> <<"C">>, address |-> FullAddr]
LocEmpty  == [id |-> <<>>, name |-> <<>>, address |-> EmptyAddr]
LocL1     == [id |-> <<"L","1">>, name |-> <<>>, address |-> FullAddr]
LocL1Ns   == [id |-> <<" ","L","o","c","a","t","i","o","n","/","L","1">>, name |-> <<"D">>,
              address |-> EmptyAddr]

LocationRecords == {LocNoId, LocEmpty, LocL1, LocL1Ns}

IdA  == <<"a">>
IdB  == <<"b">>
Id1  == <<"1">>
Id01 == <<"0","1">>

ProviderRecords == {[id |-> i] : i \in {None, IdA, IdB, Id1, Id01}}

T2019  == <<"2","0","1","9","-","0","6","-","1","5">>
T2020  == <<"2","0","2","0","-","0","1","-","0","1">>
T2020s == <<"2","0","2","0","-","1","-","1">>
T2021  == <<"2","0","2","1","-","0","5","-","0","1">>
TBad   == <<"n","/","a">>

RefL1 == <<"L","1">>
RefL2 == <<" ","L","o","c","a","t","i","o","n","/","L","2"," ">>

ActorA       == PractitionerNs \o IdA
ActorB       == PractitionerNs \o IdB
ActorPatient == <<"P","a","t","i","e","n","t","/","a">>

Encounter(s, e, l, p) == [start |-> s, end |-> e, location |-> l, participant |-> p]

\* the encounters of the aggregation runs
AggEncounters ==
    {Encounter(s, e, l, <<ActorA>>) :
        s \in {None, T2019, T2020, T2020s}, e \in {None, T2020, T2021},
        l \in {<<RefL1>>, <<None, RefL2>>}}
    \cup {Encounter(s, e, <<RefL1>>, <<ActorB, ActorA>>) : s \in {T2019, T2020}, e \in {None, T2021}}
    \cup {Encounter(TBad, None, <<>>, <<ActorB, ActorA>>),
          Encounter(<<>>, TBad, <<RefL2>>, <<ActorA>>),
          Encounter(T2019, T2021, <<>>, <<ActorPatient, PractitionerNs, <<>>, ActorB>>)}

\* the encounters of the extraction and location runs
FewEncounters ==
    {Encounter(T2019, T2021, <<RefL1>>, <<ActorA>>),
     Encounter(T2020, None, <<>>, <<ActorB>>),
     Encounter(None, T2020, <<RefL2>>, <<ActorA, PractitionerNs \o Id1>>)}

OldBatch == <<[provider_id |-> <<"z">>, src |-> 0]>>
OldFinal == <<HeaderLine, CsvLine("object", EnrichRow(EmptyDict, EmptyDict, "object", OldBatch[1]))>>

\* the state before line 9 runs: the input streams and what an earlier run
\* left in OUTPUT_DIR (OldBatches: the batch directories it may have left,
\* OldFinals: whether it may have left a final table)
InitWith(LocStreams, ProvStreams, EncStreams, OldBatches, OldFinals) ==
    /\ location_files \in LocStreams
    /\ practitioner_files \in ProvStreams
    /\ encounter_files \in EncStreams
    /\ batches \in OldBatches
    /\ final_exists \in OldFinals
    /\ final_lines = IF final_exists THEN OldFinal ELSE <<>>
    /\ pc = "guard"
    /\ error = "none"
    /\ loc_i = 0 /\ prov_i = 0 /\ enc_i = 0 /\ merge_i = 0
    /\ existing_batches = {}
    /\ location_lookup = EmptyDict
    /\ practitioner_data = <<>>
    /\ batch_count = 0
    /\ activity_map = EmptyDict
    /\ batch_files = <<>>
    /\ header_log = <<>>

\* ---------------------------------------------------------------- actions
\* lines 19-24
RunGuard ==
    /\ pc = "guard"
    /\ existing_batches' = DOMAIN batches
    /\ IF GuardFires(DOMAIN batches)
       THEN pc' = "aborted" /\ error' = "RuntimeError"
       ELSE pc' = "locations" /\ UNCHANGED error
    /\ UNCHANGED <<inputs, loc_i, prov_i, enc_i, location_lookup, practitioner_data,
                   batch_count, batches, activity_map, final_exists, final_lines,
                   batch_files, merge_i, header_log>>

\* lines 41-64, one record
LocRecord ==
    /\ pc = "locations"
    /\ loc_i < Len(location_files)
    /\ location_lookup' = LocationStep(location_lookup, location_files[loc_i + 1])
    /\ loc_i' = loc_i + 1
    /\ UNCHANGED <<pc, error, inputs, prov_i, enc_i, existing_batches, practitioner_data,
                   batch_count, batches, activity_map, final_exists, final_lines,
                   batch_files, merge_i, header_log>>

\* the loop of line 41 ends
LocDone ==
    /\ pc = "locations"
    /\ loc_i = Len(location_files)
    /\ pc' = "providers"
    /\ UNCHANGED <<error, inputs, loc_i, prov_i, enc_i, existing_batches, location_lookup,
                   practitioner_data, batch_count, batches, activity_map, final_exists,
                   final_lines, batch_files, merge_i, header_log>>

\* lines 78-141, one record
ProvRecord ==
    /\ pc = "providers"
    /\ prov_i < Len(practitioner_files)
    /\ prov_i' = prov_i + 1
    /\ LET rec == practitioner_files[prov_i + 1]
           buf == BufferPut(practitioner_data, ExtractRow(rec, prov_i + 1))
       IN  IF Falsy(rec.id)
           THEN UNCHANGED <<practitioner_data, batches, batch_count>>
           ELSE IF ThresholdReached(buf, BATCH_SIZE)
           THEN /\ batches' = write_batch(batches, buf, batch_count)
                /\ practitioner_data' = <<>>
                /\ batch_count' = batch_count + 1
           ELSE /\ practitioner_data' = buf
                /\ UNCHANGED <<batches, batch_count>>
    /\ UNCHANGED <<pc, error, inputs, loc_i, enc_i, existing_batches, location_lookup,
                   activity_map, final_exists, final_lines, batch_files, merge_i, header_log>>

\* lines 143-147
ProvDone ==
    /\ pc = "providers"
    /\ prov_i = Len(practitioner_files)
    /\ pc' = "encounters"
    /\ IF practitioner_data # <<>>
       THEN /\ batches' = write_batch(batches, practitioner_data, batch_count)
            /\ practitioner_data' = <<>>
            /\ batch_count' = batch_count + 1
       ELSE UNCHANGED <<practitioner_data, batches, batch_count>>
    /\ UNCHANGED <<error, inputs, loc_i, prov_i, enc_i, existing_batches, location_lookup,
                   activity_map, final_exists, final_lines, batch_files, merge_i, header_log>>

\* lines 152-202, one record; an exception ends the run
EncRecord ==
    /\ pc = "encounters"
    /\ enc_i < Len(encounter_files)
    /\ enc_i' = enc_i + 1
    /\ LET r == EncounterStep(activity_map, encounter_files[enc_i + 1])
       IN  /\ activity_map' = r.map
           /\ error' = r.error
           /\ pc' = IF r.error # "none" THEN "aborted" ELSE pc
    /\ UNCHANGED <<inputs, loc_i, prov_i, existing_batches, location_lookup, practitioner_data,
                   batch_count, batches, final_exists, final_lines, batch_files, merge_i,
                   header_log>>

\* lines 206-209
EncDone ==
    /\ pc = "encounters"
    /\ enc_i = Len(encounter_files)
    /\ pc' = "merge"
    /\ final_exists' = FALSE
    /\ final_lines' = <<>>
    /\ batch_files' = SortedSeq(DOMAIN batches)
    /\ UNCHANGED <<error, inputs, loc_i, prov_i, enc_i, existing_batches, location_lookup,
                   practitioner_data, batch_count, batches, activity_map, merge_i, header_log>>

\* lines 211-240, one batch; an exception ends the run before the append
MergeBatch ==
    /\ pc = "merge"
    /\ merge_i < Len(batch_files)
    /\ LET file == batches[batch_files[merge_i + 1]]
           header == HeaderFlag(final_exists)
       IN  IF EnrichRaises(activity_map, read_csv(file))
           THEN /\ pc' = "aborted"
                /\ error' = "TypeError"
                /\ UNCHANGED <<final_exists, final_lines, merge_i, header_log>>
           ELSE /\ final_lines' = final_lines \o MergedLines(activity_map, location_lookup, file, header)
                /\ final_exists' = TRUE
                /\ header_log' = Append(header_log, header)
                /\ merge_i' = merge_i + 1
                /\ UNCHANGED <<pc, error>>
    /\ UNCHANGED <<inputs, loc_i, prov_i, enc_i, existing_batches, location_lookup,
                   practitioner_data, batch_count, batches, activity_map, batch_files>>

\* line 242
MergeDone ==
    /\ pc = "merge"
    /\ merge_i = Len(batch_files)
    /\ pc' = "done"
    /\ UNCHANGED <<error, inputs, loc_i, prov_i, enc_i, existing_batches, location_lookup,
                   practitioner_data, batch_count, batches, activity_map, final_exists,
                   final_lines, batch_files, merge_i, header_log>>

Next ==
    \/ RunGuard
    \/ LocRecord
    \/ LocDone
    \/ ProvRecord
    \/ ProvDone
    \/ EncRecord
    \/ EncDone
    \/ MergeBatch
    \/ MergeDone

\* extraction runs: every practitioner stream up to MaxProv records
Init ==
    InitWith({<<LocL1>>}, SeqsUpTo(ProviderRecords, MaxProv), {<<e>> : e \in FewEncounters},
             {EmptyDict, DictPut(EmptyDict, 0, OldBatch)}, BOOLEAN)

Spec == Init /\ [][Next]_vars

\* aggregation runs: every encounter stream up to MaxEnc records
InitAgg ==
    InitWith({<<LocNoId, LocL1>>}, {<<[id |-> IdA], [id |-> IdB]>>}, SeqsUpTo(AggEncounters, MaxEnc),
             {EmptyDict}, {TRUE})

SpecAgg == InitAgg /\ [][Next]_vars

\* location runs: every location stream up to MaxLoc records
InitLoc ==
    InitWith(SeqsUpTo(LocationRecords, MaxLoc),
             {<<[id |-> IdA]>>, <<[id |-> IdB], [id |-> Id1]>>, <<[id |-> Id1], [id |-> IdA], [id |-> Id01]>>},
             SeqsUpTo(FewEncounters, MaxEnc), {EmptyDict}, BOOLEAN)

SpecLoc == InitLoc /\ [][Next]_vars

\* ----------------------------------------------------------- properties
Rows == {i \in 1..Len(final_lines) : final_lines[i].kind = "row"}

\* final_lines holds lines of this run only
Merging == pc \in {"merge", "done"} \/ (pc = "aborted" /\ error = "TypeError")

\* the ActivityState slot of provider pid, None when absent
Slot(am, pid, slot) == IF pid \in DOMAIN am THEN am[pid][slot] ELSE None

ModelIds == {IdA, IdB, Id1, Id01}

\* the encounters that list Practitioner/<pid> as a participant
EncountersOf(pid) ==
    {i \in 1..Len(encounter_files) :
        \E k \in 1..Len(encounter_files[i].participant) :
            encounter_files[i].participant[k] = PractitionerNs \o pid}

\* C1: for every provider row the merge stage processes and each slot, a
\* slot that is absent in the provider's ActivityState (no entry at all, or
\* an entry whose slot is absent) leaves the date and location-reference
\* fields of the output row absent, and the merge raises no error.
C1_AbsentSlotLeavesFieldsAbsent ==
    Merging =>
        /\ error # "TypeError"
        /\ \A i \in Rows :
              LET pid == practitioner_files[final_lines[i].src].id
              IN  /\ Slot(activity_map, pid, "first") = None =>
                        /\ final_lines[i].first_activity_date = <<>>
                        /\ final_lines[i].first_activity_location = <<>>
                  /\ Slot(activity_map, pid, "last") = None =>
                        /\ final_lines[i].last_activity_date = <<>>
                        /\ final_lines[i].last_activity_location = <<>>

\* C2: a timestamp comparison that fails during encounter aggregation does
\* not abort the run: the record is skipped and the scan goes on to the
\* merge stage.
C2_CompareFailureDoesNotAbort == ~(pc = "aborted" /\ error = "ParserError")

\* C3: location records without an id create no index entry, so every
\* output row whose first (last) activity location reference is absent has
\* an absent first (last) activity address.
C3_AbsentReferenceHasAbsentAddress ==
    Merging =>
        \A i \in Rows :
            /\ final_lines[i].first_activity_location = <<>> => final_lines[i].first_activity_address = <<>>
            /\ final_lines[i].last_activity_location = <<>> => final_lines[i].last_activity_address = <<>>

\* the last record of the practitioner stream with the id pid
LastOccurrence(pid) ==
    CHOOSE i \in 1..Len(practitioner_files) :
        /\ practitioner_files[i].id = pid
        /\ \A j \in (i + 1)..Len(practitioner_files) : practitioner_files[j].id # pid

\* C4: the final merged output holds at most one row per provider id, and
\* that row carries the fields of the last record of the stream with that
\* id, also when the occurrences lie in different checkpoint batches.
C4_OneRowPerProviderId ==
    pc = "done" =>
        /\ \A i, j \in Rows : final_lines[i].provider_id = final_lines[j].provider_id => i = j
        /\ \A i \in Rows : final_lines[i].src = LastOccurrence(practitioner_files[final_lines[i].src].id)

DistinctIds ==
    /\ \A i \in 1..Len(practitioner_files) : ~Falsy(practitioner_files[i].id)
    /\ \A i, j \in 1..Len(practitioner_files) :
          practitioner_files[i].id = practitioner_files[j].id => i = j

CeilDiv(n, t) == (n + t - 1) \div t

\* C5: with threshold T = BATCH_SIZE and N records with non-empty, pairwise
\* distinct ids, the buffer never holds more than T rows, extraction leaves
\* exactly ceil(N/T) batches numbered from 0 with at most T rows each and an
\* empty buffer, and the final output of the run holds exactly N rows.
C5_BatchesAndRowCount ==
    (DistinctIds /\ pc # "guard" /\ existing_batches = {}) =>
        /\ Len(practitioner_data) <= BATCH_SIZE
        /\ pc \notin {"locations", "providers"} =>
              /\ practitioner_data = <<>>
              /\ batch_count = CeilDiv(Len(practitioner_files), BATCH_SIZE)
              /\ DOMAIN batches = 0..(batch_count - 1)
              /\ \A n \in DOMAIN batches : Len(batches[n]) \in 1..BATCH_SIZE
        /\ pc \in {"done", "aborted"} => Cardinality(Rows) = Len(practitioner_files)

AllParseable ==
    \A i \in 1..Len(encounter_files) :
        /\ ~Falsy(encounter_files[i].start) => DtOk(encounter_files[i].start)
        /\ ~Falsy(encounter_files[i].end) => DtOk(encounter_files[i].end)

ScanComplete == enc_i = Len(encounter_files) /\ error # "ParserError"

\* C6: once the whole encounter stream is consumed (all timestamps
\* parseable), for every provider id referenced as Practitioner/<id>: first
\* is the earliest period.start of its encounters that carry a start (absent
\* if none does), last is the latest period.end of those that carry an end
\* (absent if none does), and the location stored with each is the
\* normalized first location reference of an encounter with exactly that
\* timestamp, whatever the order of arrival.
C6_EarliestStartLatestEnd ==
    (ScanComplete /\ AllParseable) =>
        \A pid \in ModelIds :
            LET starts == {i \in EncountersOf(pid) : ~Falsy(encounter_files[i].start)}
                ends   == {i \in EncountersOf(pid) : ~Falsy(encounter_files[i].end)}
                first  == Slot(activity_map, pid, "first")
                last   == Slot(activity_map, pid, "last")
            IN  /\ IF starts = {} THEN first = None
                   ELSE /\ first # None
                        /\ \A i \in starts : dt_parse(first[1]) <= dt_parse(encounter_files[i].start)
                        /\ \E i \in starts : /\ encounter_files[i].start = first[1]
                                             /\ FirstLocRef(encounter_files[i]) = first[2]
                /\ IF ends = {} THEN last = None
                   ELSE /\ last # None
                        /\ \A i \in ends : dt_parse(last[1]) >= dt_parse(encounter_files[i].end)
                        /\ \E i \in ends : /\ encounter_files[i].end = last[1]
                                           /\ FirstLocRef(encounter_files[i]) = last[2]

\* a provider with a later, earlier start and an earlier, later end
C6_Witness ==
    /\ ScanComplete /\ AllParseable /\ Len(encounter_files) = 2
    /\ EncountersOf(IdA) = {1, 2}
    /\ encounter_files[1].start = T2020 /\ encounter_files[2].start = T2019
    /\ encounter_files[1].end = T2021 /\ encounter_files[2].end = T2020
    /\ activity_map[IdA].first[1] = T2019
    /\ activity_map[IdA].last[1] = T2021

\* C7: with a checkpoint batch present at the start the run ends in the
\* fatal error at once: no source record is read, no batch is written, the
\* batches and the final output stay as they were; without one the guard
\* does not fire.
C7_RunGuard ==
    [][/\ pc # "aborted"
       /\ (pc = "guard" /\ DOMAIN batches # {}) =>
              /\ pc' = "aborted" /\ error' = "RuntimeError"
              /\ UNCHANGED <<batches, final_exists, final_lines, loc_i, prov_i, enc_i,
                             location_lookup, practitioner_data, batch_count, activity_map>>
       /\ (pc = "guard" /\ DOMAIN batches = {}) => pc' = "locations" /\ error' = "none"]_vars

C7_Witness ==
    /\ pc = "aborted" /\ error = "RuntimeError"
    /\ existing_batches = {0} /\ batches[0] = OldBatch
    /\ final_exists /\ final_lines = OldFinal
    /\ Len(practitioner_files) > 0

\* C8: in a run that appends at least one batch, the final output holds the
\* header exactly once, as its first line, written by the first append and
\* by no later one.
C8_HeaderOnce ==
    header_log # <<>> =>
        /\ final_exists
        /\ header_log[1]
        /\ \A k \in 2..Len(header_log) : ~header_log[k]
        /\ final_lines[1].kind = "header"
        /\ \A i \in 2..Len(final_lines) : final_lines[i].kind = "row"

C8_Witness == pc = "done" /\ Len(header_log) = 2 /\ Len(final_lines) >= 3

Moved(old, new, earlier) ==
    \/ new = old
    \/ old = None /\ new # None
    \/ /\ old # None /\ new # None
       /\ DtOk(old[1]) /\ DtOk(new[1])
       /\ IF earlier THEN dt_parse(new[1]) < dt_parse(old[1])
          ELSE dt_parse(new[1]) > dt_parse(old[1])

\* C9: in every step and for every provider, first stays, is set from
\* absent, or moves to a strictly earlier timestamp; last stays, is set from
\* absent, or moves to a strictly later one (so a set slot never becomes
\* absent and an equal timestamp replaces nothing); and only participants
\* of the encounter being processed change.
C9_Monotone ==
    [][\A pid \in (DOMAIN activity_map) \cup (DOMAIN activity_map') :
          /\ Moved(Slot(activity_map, pid, "first"), Slot(activity_map', pid, "first"), TRUE)
          /\ Moved(Slot(activity_map, pid, "last"), Slot(activity_map', pid, "last"), FALSE)
          /\ (\/ Slot(activity_map, pid, "first") # Slot(activity_map', pid, "first")
              \/ Slot(activity_map, pid, "last") # Slot(activity_map', pid, "last")
              \/ pid \notin DOMAIN activity_map) =>
                 /\ pc = "encounters" /\ enc_i' = enc_i + 1
                 /\ enc_i + 1 \in EncountersOf(pid)]_vars

\* an encounter with an equal start and another location left first alone
C9_Witness ==
    /\ enc_i = 2 /\ error = "none"
    /\ EncountersOf(IdA) = {1, 2}
    /\ encounter_files[1].start = T2020 /\ encounter_files[1].location = <<RefL1>>
    /\ encounter_files[2].start = T2020s /\ encounter_files[2].location = <<None, RefL2>>
    /\ activity_map[IdA].first = <<T2020, normalize_location_key(RefL1)>>

\* C10: when a loaded batch holds several rows with the same provider id,
\* the row kept and appended for that id is the last of them in batch order.
C10_DedupKeepsLast ==
    Merging =>
        \A k \in 1..merge_i :
            LET rows == read_csv(batches[batch_files[k]]).rows
            IN  \A i \in 1..Len(rows) :
                    (\E n \in Rows : final_lines[n].src = rows[i].src)
                        <=> (\A j \in (i + 1)..Len(rows) : rows[j].provider_id # rows[i].provider_id)

====
